---- MODULE Spec2Model ----
(***************************************************************************)
(* Gate evaluators of Diet Mac'n'Cheese (DietMacAndCheeseProver and        *)
(* DietMacAndCheeseVerifier, src/diet-mac-and-cheese/src/backend.rs),      *)
(* instantiated at a binary extension field in the style of Gf128          *)
(* (src/scuttlebutt/src/field/gf_2_128.rs): clear values live in the prime *)
(* field F2, tags are bit vectors added with XOR.                          *)
(*                                                                         *)
(* An authenticated value ("wire") is modelled with both parties' views:   *)
(* the Prover holds (value, mac), the Verifier holds key, and a wire that  *)
(* came out of the commitment functionality satisfies                      *)
(*     mac = value * delta + key.                                          *)
(* The commitment functionality (homcom), the channel and the rng are      *)
(* external to the two source files; their outcomes are inputs of the      *)
(* actions, constrained by the contract the evaluator relies on.           *)
(***************************************************************************)
EXTENDS Integers, Sequences, FiniteSets, TLC

\* ------------------------------------------------------------------ bounds

\* Largest number of counted gate calls on one evaluator.
MaxOps == 3

\* Most gates of a circuit evaluated by a Prover and a Verifier together.
MaxPair == 2

\* Most gates evaluated by two evaluators that share a commitment functionality.
MaxShared == 1

\* Most edge bits set in an operand of a Gf128 multiplication.
MaxTerms == 2

\* Longest byte buffer given to from_bytes_le.
MaxLen == 4

\* Width of a tag in bits (Gf128 has 128).
TagBits == 1

\* ------------------------------------------------------- program constants

\* backend.rs:45 (3_000_000 in the source, scaled so that the queue fills).
QUEUE_CAPACITY == 2

\* gf_2_128.rs:247 (ByteReprLen = U16 in the source, scaled).
ByteReprLen == 2

\* backend.rs:46 (5_000_000 in the source, scaled so that the tick wraps).
TICK_TIMER == 2

\* gf_2_128.rs:307, the prime field of Gf128 is F2.
MODULUS == 2

\* ------------------------------------------------------------------ fields

Ids == {1, 2}

Roles == {"Prover", "Verifier"}

Clear == 0 .. (MODULUS - 1)

RECURSIVE Pow2(_)
Pow2(n) == IF n = 0 THEN 1 ELSE 2 * Pow2(n - 1)

Tags == 0 .. (Pow2(TagBits) - 1)

\* add_assign of Gf128: self.0 ^= rhs.0
RECURSIVE Xor(_, _)
Xor(a, b) ==
    IF a = 0 THEN b
    ELSE IF b = 0 THEN a
    ELSE (((a % 2) + (b % 2)) % 2) + 2 * Xor(a \div 2, b \div 2)

\* sub_assign of Gf128: the additive inverse is the identity, so -x = 0 - x = x
Neg(x) == Xor(0, x)

\* multiply_by_prime_subfield: conditional_select(ZERO, self, pf == ONE)
multiply_by_prime_subfield(x, pf) == IF pf = 1 THEN x ELSE 0

VARIABLES
    role,              \* which of the two structs evaluator e is
    no_batching,       \* field no_batching
    delta,             \* the Verifier's key of the shared commitment functionality
    is_ok,             \* field is_ok
    check_zero_list,   \* field check_zero_list
    monitor,           \* field monitor
    state_mult_check,  \* field state_mult_check
    last,              \* the last public call: evaluator, operation, result, events
    valid_run,         \* history: no fault, no non-zero assertion, no bad product so far
    nz,                \* history: a non-zero value was asserted zero ("none"/"pending"/"failed")
    dropped,           \* "alive", or how drop left the evaluator: "warned" / "silent"
    track,             \* what is recorded besides last: "off", "args" or "hist"
    hist,              \* history: mul gates since the last finalize or reset, failures
    last2,             \* the call on evaluator 2 when both evaluators are driven together
    failed,            \* history: some call of the joint run returned an error
    challenged,        \* the value each evaluator got from the challenge primitive
    bytes,             \* the byte buffer given to from_bytes_le
    decoded,           \* what from_bytes_le returned for it
    gf_a,              \* left operand of a Gf128 multiplication (set of its one bits)
    gf_b,              \* right operand
    gf_out             \* what mul_wide and reduce returned for them

vars == <<role, no_batching, delta, is_ok, check_zero_list, monitor,
          state_mult_check, last, valid_run, nz, dropped, track, hist, last2, failed,
          challenged, bytes, decoded, gf_a, gf_b, gf_out>>

\* The variables of the gate evaluators, and those of the field functions.
evaluators == <<role, no_batching, delta, is_ok, check_zero_list, monitor,
                state_mult_check, last, valid_run, nz, dropped, track, hist, last2,
                failed, challenged>>

field == <<bytes, decoded, gf_a, gf_b, gf_out>>

\* ------------------------------------------------------------------- wires

\* A wire as the commitment functionality hands it out.
AuthWire(v, k) ==
    [value |-> v, mac |-> Xor(multiply_by_prime_subfield(delta, v), k), key |-> k]

Wires == {AuthWire(v, k) : v \in Clear, k \in Tags}

NoWire == [value |-> -1, mac |-> -1, key |-> -1]

\* ------------------------------------------------------------ from_bytes_le

\* Nothing decoded yet.
NotDecoded == [done |-> FALSE, ok |-> FALSE, val |-> 0]

\* while x.last() == Some(&0) { x = &x[0..x.len() - 1]; }
RECURSIVE strip(_)
strip(x) ==
    IF Len(x) > 0 /\ x[Len(x)] = 0 THEN strip(SubSeq(x, 1, Len(x) - 1)) ELSE x

\* u128::from_le_bytes, on ByteReprLen bytes
RECURSIVE from_le_bytes(_)
from_le_bytes(b) ==
    IF Len(b) = 0 THEN 0 ELSE b[1] + 256 * from_le_bytes(Tail(b))

\* Gf128::from_bytes: cannot fail
from_bytes(b) == [done |-> TRUE, ok |-> TRUE, val |-> from_le_bytes(b)]

\* u128::to_le_bytes, n bytes of it
RECURSIVE to_le_bytes(_, _)
to_le_bytes(v, n) ==
    IF n = 0 THEN <<>> ELSE <<v % 256>> \o to_le_bytes(v \div 256, n - 1)

\* Gf128::to_bytes
to_bytes(v) == to_le_bytes(v, ByteReprLen)

\* padded_read with one `if` for the `while`: a single trailing zero stripped.
padded_read_once(x0) ==
    LET x == IF Len(x0) > 0 /\ x0[Len(x0)] = 0 THEN SubSeq(x0, 1, Len(x0) - 1) ELSE x0
        size == IF Len(x) < ByteReprLen THEN Len(x) ELSE ByteReprLen
        out == [i \in 1 .. ByteReprLen |-> IF i <= size THEN x[i] ELSE 0]
    IN  IF Len(x) > ByteReprLen
        THEN [done |-> TRUE, ok |-> FALSE, val |-> 0]
        ELSE [done |-> TRUE, ok |-> TRUE, val |-> from_le_bytes(out)]

\* padded_read with >= for >: a buffer of the canonical length is refused.
padded_read_strict(x0) ==
    LET x == strip(x0)
        size == IF Len(x) < ByteReprLen THEN Len(x) ELSE ByteReprLen
        out == [i \in 1 .. ByteReprLen |-> IF i <= size THEN x[i] ELSE 0]
    IN  IF Len(x) >= ByteReprLen
        THEN [done |-> TRUE, ok |-> FALSE, val |-> 0]
        ELSE [done |-> TRUE, ok |-> TRUE, val |-> from_le_bytes(out)]

\* padded_read: Err("Invalid field element") when the stripped buffer is longer
\* than ByteReprLen, else from_bytes of the buffer copied into a zeroed array.
padded_read(x0) ==
    LET x == strip(x0)
        size == IF Len(x) < ByteReprLen THEN Len(x) ELSE ByteReprLen
        out == [i \in 1 .. ByteReprLen |-> IF i <= size THEN x[i] ELSE 0]
    IN  IF Len(x) > ByteReprLen
        THEN [done |-> TRUE, ok |-> FALSE, val |-> 0]
        ELSE from_bytes(out)

from_bytes_le(val) == padded_read(val)

\* ---------------------------------------------------------------- Gf128 mul

\* A u128, a u64 or a __m128i is the set of the positions of its one bits.
U128 == 0 .. 127

U64 == 0 .. 63

\* Nothing multiplied yet.
NotMultiplied == [op |-> "none", upper |-> {}, lower |-> {}, reduced |-> {}]

\* x << k on w bits, and x >> k
shl(x, k, w) == {i + k : i \in {j \in x : j + k < w}}

shr(x, k) == {i - k : i \in {j \in x : j >= k}}

\* _mm_xor_si128(a, b), and ^ on u64
xor(a, b) == (a \ b) \cup (b \ a)

xor4(a, b, c, d) == xor(xor(a, b), xor(c, d))

\* _mm_bsrli_si128(a, 8): the register shifted right by 8 bytes
upper_bits_made_lower(a) == shr(a, 64)

\* _mm_bslli_si128(a, 8): the register shifted left by 8 bytes
lower_bits_made_upper(a) == shl(a, 64, 128)

\* _mm_clmulepi64_si128(a, b, imm8): the carry-less product of one 64-bit half
\* of a (the upper one when bit 0 of imm8 is set) and one of b (bit 4).
mm_clmulepi64_si128(a, b, a_upper, b_upper) ==
    LET x == IF a_upper THEN shr(a, 64) ELSE a \cap U64
        y == IF b_upper THEN shr(b, 64) ELSE b \cap U64
    IN  {k \in U128 : Cardinality({i \in x : k - i \in y}) % 2 = 1}

mul_wide(a, b) ==
    LET c == mm_clmulepi64_si128(a, b, TRUE, TRUE)
        d == mm_clmulepi64_si128(a, b, FALSE, FALSE)
        e == mm_clmulepi64_si128(xor(a, upper_bits_made_lower(a)),
                                 xor(b, upper_bits_made_lower(b)), FALSE, FALSE)
    IN  [upper |-> xor4(c, upper_bits_made_lower(c), upper_bits_made_lower(d),
                        upper_bits_made_lower(e)),
         lower |-> xor4(d, lower_bits_made_upper(d), lower_bits_made_upper(c),
                        lower_bits_made_upper(e))]

\* sep(x) = ((x >> 64) as u64, x as u64)
sep(x) == [hi |-> shr(x, 64), lo |-> x \cap U64]

\* join(u, l) = ((u as u128) << 64) | (l as u128)
join(u, l) == shl(u, 64, 128) \cup l

\* reduce with x3 >> 56 for x3 >> 57.
reduce_shifting_56(upper, lower) ==
    LET x3 == sep(upper).hi
        x2 == sep(upper).lo
        x1 == sep(lower).hi
        x0 == sep(lower).lo
        a == shr(x3, 63)
        b == shr(x3, 62)
        c == shr(x3, 56)
        d == xor(xor(xor(x2, a), b), c)
        e == sep(shl(join(x3, d), 1, 128))
        f == sep(shl(join(x3, d), 2, 128))
        g == sep(shl(join(x3, d), 7, 128))
        h1 == xor(xor(xor(x3, e.hi), f.hi), g.hi)
        h0 == xor(xor(xor(d, e.lo), f.lo), g.lo)
    IN  join(xor(x1, h1), xor(x0, h0))

reduce(upper, lower) ==
    LET x3 == sep(upper).hi
        x2 == sep(upper).lo
        x1 == sep(lower).hi
        x0 == sep(lower).lo
        a == shr(x3, 63)
        b == shr(x3, 62)
        c == shr(x3, 57)
        d == xor(xor(xor(x2, a), b), c)
        e == sep(shl(join(x3, d), 1, 128))
        f == sep(shl(join(x3, d), 2, 128))
        g == sep(shl(join(x3, d), 7, 128))
        h1 == xor(xor(xor(x3, e.hi), f.hi), g.hi)
        h0 == xor(xor(xor(d, e.lo), f.lo), g.lo)
    IN  join(xor(x1, h1), xor(x0, h0))

\* MulAssign::mul_assign: mul_wide, then reduce of its two halves
mul_assign(a, b) ==
    LET w == mul_wide(a, b)
    IN  [op |-> "mul_assign", upper |-> w.upper, lower |-> w.lower,
         reduced |-> reduce(w.upper, w.lower)]

\* ------------------------------------------------- commitment functionality

\* FComProver::add / FComVerifier::add
fcom_add(a, b) ==
    [value |-> (a.value + b.value) % MODULUS,
     mac |-> Xor(a.mac, b.mac),
     key |-> Xor(a.key, b.key)]

\* affine_add_cst(c, a): a + c
affine_add_cst(c, a) ==
    [value |-> (a.value + c) % MODULUS,
     mac |-> a.mac,
     key |-> Xor(a.key, Neg(multiply_by_prime_subfield(delta, c)))]

\* affine_mult_cst(c, a): a * c
affine_mult_cst(c, a) ==
    [value |-> (a.value * c) % MODULUS,
     mac |-> multiply_by_prime_subfield(a.mac, c),
     key |-> multiply_by_prime_subfield(a.key, c)]

\* check_zero: the Prover checks its clear values and sends a hash of the macs,
\* the Verifier compares it with the hash of its keys. fault: transport fault.
check_zero(r, list, fault) ==
    /\ ~fault
    /\ \A i \in 1 .. Len(list) :
          IF r = "Prover" THEN list[i].value = 0 ELSE list[i].mac = list[i].key

\* StateMultCheck: the running aggregate of the pushed triples, kept as the
\* number of triples and whether the aggregate is that of consistent triples.
EmptyMultCheck == [cnt |-> 0, sound |-> TRUE]

\* quicksilver_push(state, (a, b, c))
quicksilver_push(st, a, b, c) ==
    [cnt |-> st.cnt + 1,
     sound |-> st.sound /\ c.value = (a.value * b.value) % MODULUS]

\* quicksilver_finalize: ok and the count, with the state reinitialized; on a
\* failure the contract does not say whether the state is kept (keep).
quicksilver_finalize(st, fault, keep) ==
    IF ~fault /\ st.sound
    THEN [ok |-> TRUE, cnt |-> st.cnt, st |-> EmptyMultCheck]
    ELSE [ok |-> FALSE, cnt |-> 0, st |-> IF keep THEN st ELSE EmptyMultCheck]

\* reset(state): reinitializes the multiplication accumulator
fcom_reset(st) == EmptyMultCheck

\* ----------------------------------------------------------------- Monitor

MonitorDefault ==
    [tick |-> 0, monitor_instance |-> 0, monitor_witness |-> 0, monitor_mul |-> 0,
     monitor_mulc |-> 0, monitor_add |-> 0, monitor_addc |-> 0,
     monitor_check_zero |-> 0, monitor_zk_check_zero |-> 0,
     monitor_zk_mult_check |-> 0]

tick(m) ==
    LET t == m.tick + 1
    IN [m EXCEPT !.tick = IF t >= TICK_TIMER THEN t % TICK_TIMER ELSE t]

incr_monitor_instance(m) == [tick(m) EXCEPT !.monitor_instance = @ + 1]
incr_monitor_mul(m) == [tick(m) EXCEPT !.monitor_mul = @ + 1]
incr_monitor_mulc(m) == [tick(m) EXCEPT !.monitor_mulc = @ + 1]
incr_monitor_add(m) == [tick(m) EXCEPT !.monitor_add = @ + 1]
incr_monitor_addc(m) == [tick(m) EXCEPT !.monitor_addc = @ + 1]
incr_monitor_check_zero(m) == [tick(m) EXCEPT !.monitor_check_zero = @ + 1]
incr_monitor_witness(m) == [tick(m) EXCEPT !.monitor_witness = @ + 1]
incr_zk_mult_check(m, n) == [m EXCEPT !.monitor_zk_mult_check = @ + n]
incr_zk_check_zero(m, n) == [m EXCEPT !.monitor_zk_check_zero = @ + n]

\* Number of counted gate calls so far.
Calls(m) ==
    m.monitor_instance + m.monitor_witness + m.monitor_mul + m.monitor_mulc
    + m.monitor_add + m.monitor_addc + m.monitor_check_zero

\* --------------------------------------------------------------- evaluator

\* One channel or sub-protocol call made by the evaluator: its name, whether it
\* returned Ok, whether a transport fault hit it, the batch handed to
\* check_zero and the count returned by quicksilver_finalize.
Event(name, ok, fault, batch, n) ==
    [ev |-> name, ok |-> ok, fault |-> fault, batch |-> batch, n |-> n]

\* The evaluator e as the methods see it (self), with the calls made so far.
Self(e) ==
    [role |-> role[e], no_batching |-> no_batching[e], is_ok |-> is_ok[e],
     check_zero_list |-> check_zero_list[e], monitor |-> monitor[e],
     state_mult_check |-> state_mult_check[e], events |-> <<>>]

\* What a method leaves: self, Ok or Err, and the value returned.
Ret(S, res, out) == [S |-> S, res |-> res, out |-> out]

\* check_is_ok that never reports the earlier error.
check_is_ok_always(S) == TRUE

check_is_ok(S) == S.is_ok

\* input: v is the Prover's clear value; the Verifier gets what the peer put in.
input(S, v, fault, key) ==
    LET S1 == [S EXCEPT !.events = Append(@, Event("input1", ~fault, fault, <<>>, 0))]
    IN  IF fault
        THEN Ret([S1 EXCEPT !.is_ok = FALSE], "err", NoWire)
        ELSE Ret(S1, "ok", AuthWire(v, key))

\* do_mult_check that calls quicksilver_finalize without flushing first.
do_mult_check_unflushed(S, fm, qs, keep) ==
    LET q == quicksilver_finalize(S.state_mult_check, qs, keep)
        S1 == [S EXCEPT !.events = Append(@, Event("quicksilver_finalize", q.ok, qs, <<>>, q.cnt)),
                        !.state_mult_check = q.st]
    IN  IF ~q.ok THEN Ret(S1, "err", NoWire)
        ELSE Ret([S1 EXCEPT !.monitor = incr_zk_mult_check(@, q.cnt)], "ok", NoWire)

do_mult_check(S, fm, qs, keep) ==
    LET S0 == [S EXCEPT !.events = Append(@, Event("flush", ~fm, fm, <<>>, 0))]
        q == quicksilver_finalize(S.state_mult_check, qs, keep)
        S1 == [S0 EXCEPT !.events = Append(@, Event("quicksilver_finalize", q.ok, qs, <<>>, q.cnt)),
                         !.state_mult_check = q.st]
    IN  IF fm THEN Ret(S0, "err", NoWire)
        ELSE IF ~q.ok THEN Ret(S1, "err", NoWire)
        ELSE Ret([S1 EXCEPT !.monitor = incr_zk_mult_check(@, q.cnt)], "ok", NoWire)

\* do_check_zero that leaves the checked values in the list.
do_check_zero_keeping(S, fz, cz) ==
    LET S0 == [S EXCEPT !.events = Append(@, Event("flush", ~fz, fz, <<>>, 0))]
        r == check_zero(S.role, S.check_zero_list, cz)
        S1 == [S0 EXCEPT
                 !.events = Append(@, Event("check_zero", r, cz, S.check_zero_list,
                                            Len(S.check_zero_list))),
                 !.is_ok = IF r THEN @ ELSE FALSE,
                 !.monitor = incr_zk_check_zero(@, Len(S.check_zero_list))]
    IN  IF fz THEN Ret(S0, "err", NoWire)
        ELSE Ret(S1, IF r THEN "ok" ELSE "err", NoWire)

\* do_check_zero that does not return the error of check_zero.
do_check_zero_swallowing(S, fz, cz) ==
    LET S0 == [S EXCEPT !.events = Append(@, Event("flush", ~fz, fz, <<>>, 0))]
        r == check_zero(S.role, S.check_zero_list, cz)
        S1 == [S0 EXCEPT
                 !.events = Append(@, Event("check_zero", r, cz, S.check_zero_list,
                                            Len(S.check_zero_list))),
                 !.is_ok = IF r THEN @ ELSE FALSE,
                 !.monitor = incr_zk_check_zero(@, Len(S.check_zero_list)),
                 !.check_zero_list = <<>>]
    IN  IF fz THEN Ret(S0, "err", NoWire)
        ELSE Ret(S1, "ok", NoWire)

\* do_check_zero with the test of r inverted: a successful check poisons.
do_check_zero_inverted(S, fz, cz) ==
    LET S0 == [S EXCEPT !.events = Append(@, Event("flush", ~fz, fz, <<>>, 0))]
        r == check_zero(S.role, S.check_zero_list, cz)
        S1 == [S0 EXCEPT
                 !.events = Append(@, Event("check_zero", r, cz, S.check_zero_list,
                                            Len(S.check_zero_list))),
                 !.is_ok = IF r THEN FALSE ELSE @,
                 !.monitor = incr_zk_check_zero(@, Len(S.check_zero_list)),
                 !.check_zero_list = <<>>]
    IN  IF fz THEN Ret(S0, "err", NoWire)
        ELSE Ret(S1, IF r THEN "ok" ELSE "err", NoWire)

do_check_zero(S, fz, cz) ==
    LET S0 == [S EXCEPT !.events = Append(@, Event("flush", ~fz, fz, <<>>, 0))]
        r == check_zero(S.role, S.check_zero_list, cz)
        S1 == [S0 EXCEPT
                 !.events = Append(@, Event("check_zero", r, cz, S.check_zero_list,
                                            Len(S.check_zero_list))),
                 !.is_ok = IF r THEN @ ELSE FALSE,
                 !.monitor = incr_zk_check_zero(@, Len(S.check_zero_list)),
                 !.check_zero_list = <<>>]
    IN  IF fz THEN Ret(S0, "err", NoWire)
        ELSE Ret(S1, IF r THEN "ok" ELSE "err", NoWire)

\* push_check_zero_list that puts the value at the head of the list.
push_check_zero_list_front(S, e, fz, cz) ==
    LET S1 == [S EXCEPT !.check_zero_list = <<e>> \o @]
    IN  IF Len(S1.check_zero_list) = QUEUE_CAPACITY \/ S1.no_batching
        THEN do_check_zero(S1, fz, cz)
        ELSE Ret(S1, "ok", NoWire)

\* push_check_zero_list that flushes only when both conditions hold (&& for ||).
push_check_zero_list_and(S, e, fz, cz) ==
    LET S1 == [S EXCEPT !.check_zero_list = Append(@, e)]
    IN  IF Len(S1.check_zero_list) = QUEUE_CAPACITY /\ S1.no_batching
        THEN do_check_zero(S1, fz, cz)
        ELSE Ret(S1, "ok", NoWire)

push_check_zero_list(S, e, fz, cz) ==
    LET S1 == [S EXCEPT !.check_zero_list = Append(@, e)]
    IN  IF Len(S1.check_zero_list) = QUEUE_CAPACITY \/ S1.no_batching
        THEN do_check_zero(S1, fz, cz)
        ELSE Ret(S1, "ok", NoWire)

assert_zero(S, value, fz, cz) ==
    IF ~check_is_ok(S) THEN Ret(S, "err", NoWire)
    ELSE push_check_zero_list([S EXCEPT !.monitor = incr_monitor_check_zero(@)],
                              value, fz, cz)

add(S, a, b) ==
    IF ~check_is_ok(S) THEN Ret(S, "err", NoWire)
    ELSE Ret([S EXCEPT !.monitor = incr_monitor_add(@)], "ok", fcom_add(a, b))

\* mul that pushes its triple whether or not input succeeded.
mul_pushing_on_error(S, a, b, peer, fault, key) ==
    IF ~S.is_ok THEN Ret(S, "err", NoWire)
    ELSE LET S1 == [S EXCEPT !.monitor = incr_monitor_mul(@)]
             product == (a.value * b.value) % MODULUS
             r == input(S1, IF S.role = "Prover" THEN product ELSE peer, fault, key)
         IN  Ret([r.S EXCEPT !.state_mult_check = quicksilver_push(@, a, b, r.out)],
                 r.res, r.out)

\* mul that pushes its triple twice.
mul_pushing_twice(S, a, b, peer, fault, key) ==
    IF ~S.is_ok THEN Ret(S, "err", NoWire)
    ELSE LET S1 == [S EXCEPT !.monitor = incr_monitor_mul(@)]
             product == (a.value * b.value) % MODULUS
             r == input(S1, IF S.role = "Prover" THEN product ELSE peer, fault, key)
         IN  IF r.res = "err" THEN r
             ELSE Ret([r.S EXCEPT !.state_mult_check =
                           quicksilver_push(quicksilver_push(@, a, b, r.out), a, b, r.out)],
                      "ok", r.out)

\* mul whose Prover variant does not push the triple to the accumulator.
mul_pushed_by_verifier_only(S, a, b, peer, fault, key) ==
    IF ~S.is_ok THEN Ret(S, "err", NoWire)
    ELSE LET S1 == [S EXCEPT !.monitor = incr_monitor_mul(@)]
             product == (a.value * b.value) % MODULUS
             r == input(S1, IF S.role = "Prover" THEN product ELSE peer, fault, key)
         IN  IF r.res = "err" THEN r
             ELSE IF S.role = "Prover" THEN Ret(r.S, "ok", r.out)
             ELSE Ret([r.S EXCEPT !.state_mult_check = quicksilver_push(@, a, b, r.out)],
                      "ok", r.out)

\* peer: the clear value the peer authenticates, which the Verifier's input1 gets.
mul(S, a, b, peer, fault, key) ==
    IF ~check_is_ok(S) THEN Ret(S, "err", NoWire)
    ELSE LET S1 == [S EXCEPT !.monitor = incr_monitor_mul(@)]
             product == (a.value * b.value) % MODULUS
             r == input(S1, IF S.role = "Prover" THEN product ELSE peer, fault, key)
         IN  IF r.res = "err" THEN r
             ELSE Ret([r.S EXCEPT !.state_mult_check = quicksilver_push(@, a, b, r.out)],
                      "ok", r.out)

\* addc that returns its argument without the constant.
addc_dropping_constant(S, a, b) ==
    IF ~S.is_ok THEN Ret(S, "err", NoWire)
    ELSE Ret([S EXCEPT !.monitor = incr_monitor_addc(@)], "ok", a)

addc(S, a, b) ==
    IF ~check_is_ok(S) THEN Ret(S, "err", NoWire)
    ELSE Ret([S EXCEPT !.monitor = incr_monitor_addc(@)], "ok", affine_add_cst(b, a))

\* mulc that authenticates the product as mul does.
mulc_authenticating(S, value, constant) ==
    IF ~S.is_ok THEN Ret(S, "err", NoWire)
    ELSE LET S0 == [S EXCEPT !.monitor = incr_monitor_mulc(@)]
             S1 == [S0 EXCEPT !.events = Append(@, Event("input1", TRUE, FALSE, <<>>, 0))]
         IN  Ret(S1, "ok", affine_mult_cst(constant, value))

mulc(S, value, constant) ==
    IF ~check_is_ok(S) THEN Ret(S, "err", NoWire)
    ELSE Ret([S EXCEPT !.monitor = incr_monitor_mulc(@)], "ok",
             affine_mult_cst(constant, value))

\* input_public whose Verifier tag is zero as the Prover's is.
input_public_zero_tag(S, value) ==
    Ret([S EXCEPT !.monitor = incr_monitor_instance(@)], "ok",
        [value |-> value, mac |-> 0, key |-> 0])

\* Prover: MacProver::new(value, ZERO); Verifier: MacVerifier::new(-val * delta)
input_public(S, value) ==
    Ret([S EXCEPT !.monitor = incr_monitor_instance(@)], "ok",
        [value |-> value, mac |-> 0,
         key |-> multiply_by_prime_subfield(delta, Neg(value))])

input_private(S, value, fault, key) ==
    IF ~check_is_ok(S) THEN Ret(S, "err", NoWire)
    ELSE input([S EXCEPT !.monitor = incr_monitor_witness(@)], value, fault, key)

\* finalize that goes on to do_mult_check when do_check_zero has failed.
finalize_not_stopping(S, ff, fz, cz, fm, qs, keep) ==
    IF ~S.is_ok THEN Ret(S, "err", NoWire)
    ELSE LET S0 == [S EXCEPT !.events = Append(@, Event("flush", ~ff, ff, <<>>, 0))]
             z == do_check_zero(S0, fz, cz)
             m == do_mult_check(z.S, fm, qs, keep)
         IN  IF ff THEN Ret(S0, "err", NoWire)
             ELSE IF m.res = "err" \/ z.res = "err" THEN Ret(m.S, "err", NoWire)
             ELSE Ret(m.S, "ok", NoWire)

\* finalize that does not call check_is_ok and marks the evaluator ok when it
\* succeeds.
finalize_clearing(S, ff, fz, cz, fm, qs, keep) ==
    LET S0 == [S EXCEPT !.events = Append(@, Event("flush", ~ff, ff, <<>>, 0))]
        z == do_check_zero(S0, fz, cz)
        m == do_mult_check(z.S, fm, qs, keep)
    IN  IF ff THEN Ret(S0, "err", NoWire)
        ELSE IF z.res = "err" THEN z
        ELSE IF m.res = "err" THEN m
        ELSE Ret([m.S EXCEPT !.is_ok = TRUE], "ok", NoWire)

finalize(S, ff, fz, cz, fm, qs, keep) ==
    IF ~check_is_ok(S) THEN Ret(S, "err", NoWire)
    ELSE LET S0 == [S EXCEPT !.events = Append(@, Event("flush", ~ff, ff, <<>>, 0))]
             z == do_check_zero(S0, fz, cz)
             m == do_mult_check(z.S, fm, qs, keep)
         IN  IF ff THEN Ret(S0, "err", NoWire)
             ELSE IF z.res = "err" THEN z
             ELSE IF m.res = "err" THEN m
             ELSE Ret(m.S, "ok", NoWire)

\* reset that also empties the pending zero-check list.
reset_clearing_list(S) ==
    Ret([S EXCEPT !.state_mult_check = fcom_reset(@), !.is_ok = TRUE,
                  !.check_zero_list = <<>>], "ok", NoWire)

reset(S) ==
    Ret([S EXCEPT !.state_mult_check = fcom_reset(@), !.is_ok = TRUE], "ok", NoWire)

\* ------------------------------------------------------------------ actions

NoFault(R) == \A i \in 1 .. Len(R.S.events) : ~R.S.events[i].fault

\* The operations whose arguments are recorded when track is "args".
Recorded == {"input_public", "input_private", "mul", "assert_zero"}

\* The record of a call: evaluator, operation, arguments (when tracked; those
\* of mul by their clear values, which is all the accumulator keeps of them),
\* what it returned and the channel and sub-protocol calls it made.
Call(e, op, args, R) ==
    [e |-> e, op |-> op,
     args |-> IF track = "args" /\ op \in Recorded THEN args ELSE <<>>,
     res |-> R.res, out |-> R.out, events |-> R.S.events]

HistInit == [muls_since |-> 0, never_poisoned |-> TRUE, finalize_ok |-> TRUE]

HistVoid == [muls_since |-> 0, never_poisoned |-> FALSE, finalize_ok |-> FALSE]

\* The history after the call of op, made on an evaluator that was ready or
\* not, ended as R: the mul gates evaluated since the last finalize or reset,
\* whether the evaluator was never poisoned, whether no finalize failed.
\* Nothing more is recorded once the evaluator has been poisoned.
HistNext(h, ready, op, R) ==
    IF ~(h.never_poisoned /\ R.S.is_ok) THEN HistVoid ELSE
    [muls_since |-> IF op \in {"finalize", "reset"} THEN 0
                    ELSE IF op = "mul" /\ ready THEN h.muls_since + 1
                    ELSE h.muls_since,
     never_poisoned |-> TRUE,
     finalize_ok |-> h.finalize_ok /\ ~(op = "finalize" /\ R.res = "err")]

\* Store with one ok-flag for all the evaluators of a commitment functionality.
Store_sharing_flag(e, op, args, R) ==
    /\ dropped[e] = "alive"
    /\ is_ok' = [x \in Ids |-> R.S.is_ok]
    /\ check_zero_list' = [check_zero_list EXCEPT ![e] = R.S.check_zero_list]
    /\ monitor' = [monitor EXCEPT ![e] = R.S.monitor]
    /\ state_mult_check' = [state_mult_check EXCEPT ![e] = R.S.state_mult_check]
    /\ last' = Call(e, op, args, R)
    /\ hist' = IF track = "hist" THEN [hist EXCEPT ![e] = HistNext(@, is_ok[e], op, R)] ELSE hist
    /\ UNCHANGED <<role, no_batching, delta, dropped, track, last2, failed>>
    /\ UNCHANGED <<challenged, field>>

\* The call of operation op with args on evaluator e ended as R.
Store(e, op, args, R) ==
    /\ dropped[e] = "alive"
    /\ is_ok' = [is_ok EXCEPT ![e] = R.S.is_ok]
    /\ check_zero_list' = [check_zero_list EXCEPT ![e] = R.S.check_zero_list]
    /\ monitor' = [monitor EXCEPT ![e] = R.S.monitor]
    /\ state_mult_check' = [state_mult_check EXCEPT ![e] = R.S.state_mult_check]
    /\ last' = Call(e, op, args, R)
    /\ hist' = IF track = "hist" THEN [hist EXCEPT ![e] = HistNext(@, is_ok[e], op, R)] ELSE hist
    /\ UNCHANGED <<role, no_batching, delta, dropped, track, last2, failed>>
    /\ UNCHANGED <<challenged, field>>

Counted(e) == Calls(monitor[e]) < MaxOps

InputPublic(e) ==
    \E v \in Clear :
        /\ Counted(e)
        /\ Store(e, "input_public", <<v>>, input_public(Self(e), v))
        /\ UNCHANGED <<valid_run, nz>>

\* The key of a wire that input1 hands out; none is handed out on a fault.
KeysOn(fault) == IF fault THEN {0} ELSE Tags

InputPrivate(e) ==
    \E v \in Clear, fault \in BOOLEAN :
      \E key \in KeysOn(fault) :
        LET R == input_private(Self(e), v, fault, key)
        IN  /\ Counted(e)
            /\ Store(e, "input_private", <<v>>, R)
            /\ valid_run' = [valid_run EXCEPT ![e] = @ /\ NoFault(R)]
            /\ UNCHANGED nz

Add(e) ==
    \E a \in Wires, b \in Wires :
        /\ Counted(e)
        /\ Store(e, "add", <<a, b>>, add(Self(e), a, b))
        /\ UNCHANGED <<valid_run, nz>>

Addc(e) ==
    \E a \in Wires, b \in Clear :
        /\ Counted(e)
        /\ Store(e, "addc", <<a, b>>, addc(Self(e), a, b))
        /\ UNCHANGED <<valid_run, nz>>

Mulc(e) ==
    \E a \in Wires, b \in Clear :
        /\ Counted(e)
        /\ Store(e, "mulc", <<a, b>>, mulc(Self(e), a, b))
        /\ UNCHANGED <<valid_run, nz>>

\* The clear value behind the product wire: the Prover's own product, or for
\* the Verifier whatever the peer authenticates.
PeerValues(e, a, b, fault) ==
    IF role[e] = "Prover" \/ fault THEN {(a.value * b.value) % MODULUS} ELSE Clear

Mul(e) ==
    \E a \in Wires, b \in Wires, fault \in BOOLEAN :
      \E peer \in PeerValues(e, a, b, fault), key \in KeysOn(fault) :
        LET R == mul(Self(e), a, b, peer, fault, key)
        IN  /\ Counted(e)
            /\ Store(e, "mul", <<a.value, b.value>>, R)
            /\ valid_run' = [valid_run EXCEPT ![e] =
                   @ /\ NoFault(R) /\ peer = (a.value * b.value) % MODULUS]
            /\ UNCHANGED nz

AssertZero(e) ==
    \E a \in Wires, at \in {"none", "fz", "cz"} :
        LET R == assert_zero(Self(e), a, at = "fz", at = "cz")
        IN  /\ Counted(e)
            /\ Store(e, "assert_zero", <<a>>, R)
            /\ valid_run' = [valid_run EXCEPT ![e] = @ /\ NoFault(R) /\ a.value = 0]
            /\ nz' = [nz EXCEPT ![e] = IF is_ok[e] /\ a.value # 0 THEN "pending" ELSE @]

\* A fault ends the call, so at most one of its channel and sub-protocol calls
\* is hit by one: at names it.
Finalize(e) ==
    \E at \in {"none", "ff", "fz", "cz", "fm", "qs"}, keep \in BOOLEAN :
        LET R == finalize(Self(e), at = "ff", at = "fz", at = "cz", at = "fm",
                          at = "qs", keep)
        IN  /\ Store(e, "finalize", <<>>, R)
            /\ valid_run' = [valid_run EXCEPT ![e] = @ /\ NoFault(R)]
            /\ nz' = [nz EXCEPT ![e] =
                   IF @ # "pending" THEN @
                   ELSE IF R.res = "ok" THEN "none"
                   ELSE IF ~R.S.is_ok THEN "failed"
                   ELSE "pending"]

Reset(e) ==
    /\ Store(e, "reset", <<>>, reset(Self(e)))
    /\ nz' = [nz EXCEPT ![e] = "none"]
    /\ UNCHANGED valid_run

\* Drop: the warning is logged when the evaluator is ok and its list is not
\* empty; drop returns nothing and touches neither the channel nor fcom.
drop(S) == S.is_ok /\ S.check_zero_list # <<>>

Drop(e) ==
    /\ dropped[e] = "alive"
    /\ dropped' = [dropped EXCEPT ![e] = IF drop(Self(e)) THEN "warned" ELSE "silent"]
    /\ last' = Call(e, "drop", <<>>, Ret(Self(e), "ok", NoWire))
    /\ UNCHANGED <<role, no_batching, delta, is_ok, check_zero_list, monitor,
                   state_mult_check, valid_run, nz, track, hist, last2, failed>>
    /\ UNCHANGED <<challenged, field>>

Op(e) ==
    \/ InputPublic(e)
    \/ InputPrivate(e)
    \/ Add(e)
    \/ Addc(e)
    \/ Mulc(e)
    \/ Mul(e)
    \/ AssertZero(e)
    \/ Finalize(e)
    \/ Reset(e)

\* No call made yet on evaluator e.
NoCall(e) ==
    [e |-> e, op |-> "init", args |-> <<>>, res |-> "ok", out |-> NoWire,
     events |-> <<>>]

\* init / init_with_fcom: is_ok true, empty list, default monitor, fresh accumulator.
Fresh ==
    /\ delta \in Tags \ {0}
    /\ is_ok = [e \in Ids |-> TRUE]
    /\ check_zero_list = [e \in Ids |-> <<>>]
    /\ monitor = [e \in Ids |-> MonitorDefault]
    /\ state_mult_check = [e \in Ids |-> EmptyMultCheck]
    /\ last = NoCall(1)
    /\ valid_run = [e \in Ids |-> TRUE]
    /\ nz = [e \in Ids |-> "none"]
    /\ dropped = [e \in Ids |-> "alive"]
    /\ hist = [e \in Ids |-> HistInit]
    /\ last2 = NoCall(2)
    /\ failed = [e \in Ids |-> FALSE]
    /\ challenged = [e \in Ids |-> NoWire]
    /\ decoded = NotDecoded
    /\ gf_out = NotMultiplied

\* No field function is being examined.
Idle ==
    /\ bytes = <<>>
    /\ gf_a = {}
    /\ gf_b = {}

Init ==
    /\ Fresh
    /\ Idle
    /\ role \in {f \in [Ids -> Roles] : f[2] = "Verifier"}
    /\ no_batching \in {f \in [Ids -> BOOLEAN] : f[2] = FALSE}
    /\ track = "off"

\* One evaluator driven by its circuit driver.
Next == Op(1)

Spec == Init /\ [][Next]_vars

\* The call of operation op with args on both evaluators ended as R[1], R[2].
StoreBoth(op, args, R) ==
    /\ \A e \in Ids : dropped[e] = "alive"
    /\ is_ok' = [e \in Ids |-> R[e].S.is_ok]
    /\ check_zero_list' = [e \in Ids |-> R[e].S.check_zero_list]
    /\ monitor' = [e \in Ids |-> R[e].S.monitor]
    /\ state_mult_check' = [e \in Ids |-> R[e].S.state_mult_check]
    /\ last' = Call(1, op, args, R[1])
    /\ last2' = Call(2, op, args, R[2])
    /\ failed' = [e \in Ids |-> failed[e] \/ R[e].res = "err"]
    /\ UNCHANGED <<role, no_batching, delta, dropped, track, hist, valid_run, nz>>
    /\ UNCHANGED <<challenged, field>>

CountedBoth == \A e \in Ids : Counted(e)

\* The same gate, with the same arguments and the same answers of a transport
\* that does not fail, evaluated by both evaluators.
BothInputPublic ==
    \E v \in Clear :
        /\ CountedBoth
        /\ StoreBoth("input_public", <<v>>, [e \in Ids |-> input_public(Self(e), v)])

BothInputPrivate ==
    \E v \in Clear, key \in Tags :
        /\ CountedBoth
        /\ StoreBoth("input_private", <<v>>,
                     [e \in Ids |-> input_private(Self(e), v, FALSE, key)])

BothAdd ==
    \E a \in Wires, b \in Wires :
        /\ CountedBoth
        /\ StoreBoth("add", <<a, b>>, [e \in Ids |-> add(Self(e), a, b)])

BothAddc ==
    \E a \in Wires, b \in Clear :
        /\ CountedBoth
        /\ StoreBoth("addc", <<a, b>>, [e \in Ids |-> addc(Self(e), a, b)])

BothMulc ==
    \E a \in Wires, b \in Clear :
        /\ CountedBoth
        /\ StoreBoth("mulc", <<a, b>>, [e \in Ids |-> mulc(Self(e), a, b)])

BothMul ==
    \E a \in Wires, b \in Wires, key \in Tags :
      \E peer \in PeerValues(1, a, b, FALSE) :
        /\ CountedBoth
        /\ StoreBoth("mul", <<a.value, b.value>>,
                     [e \in Ids |-> mul(Self(e), a, b, peer, FALSE, key)])

BothAssertZero ==
    \E a \in Wires :
        /\ CountedBoth
        /\ StoreBoth("assert_zero", <<a>>,
                     [e \in Ids |-> assert_zero(Self(e), a, FALSE, FALSE)])

BothFinalize ==
    \E keep \in BOOLEAN :
        StoreBoth("finalize", <<>>,
                  [e \in Ids |-> finalize(Self(e), FALSE, FALSE, FALSE, FALSE, FALSE,
                                          keep)])

BothReset == StoreBoth("reset", <<>>, [e \in Ids |-> reset(Self(e))])

\* Two fresh evaluators of the same role, the first with no_batching true and
\* the second with no_batching false, given the same gate sequence.
InitBatch ==
    /\ Fresh
    /\ Idle
    /\ role \in {f \in [Ids -> Roles] : f[1] = f[2]}
    /\ no_batching = [e \in Ids |-> e = 1]
    /\ track = "off"

NextBatch ==
    \/ BothInputPublic
    \/ BothInputPrivate
    \/ BothAdd
    \/ BothAddc
    \/ BothMulc
    \/ BothMul
    \/ BothAssertZero
    \/ BothFinalize
    \/ BothReset

SpecBatch == InitBatch /\ [][NextBatch]_vars

\* A batching evaluator with the history of its mul gates recorded.
InitHist ==
    /\ Fresh
    /\ Idle
    /\ role \in {f \in [Ids -> Roles] : f[2] = "Verifier"}
    /\ no_batching = [e \in Ids |-> FALSE]
    /\ track = "hist"

SpecHist == InitHist /\ [][Next]_vars

\* The same evaluator with the arguments of its calls recorded.
InitArgs ==
    /\ Fresh
    /\ Idle
    /\ role \in {f \in [Ids -> Roles] : f[2] = "Verifier"}
    /\ no_batching \in {f \in [Ids -> BOOLEAN] : f[2] = FALSE}
    /\ track = "args"

SpecArgs == InitArgs /\ [][Next]_vars

\* The same evaluator driven until it is dropped.
NextDrop == Op(1) \/ Drop(1)

SpecDrop == Init /\ [][NextDrop]_vars

\* ---- a Prover and a Verifier evaluating one circuit

\* The same gate on both sides, hit by the same transport faults; the peer's
\* clear value reaches the Verifier only.
PairInputPrivate ==
    \E v \in Clear, fault \in BOOLEAN :
      \E key \in KeysOn(fault) :
        /\ CountedBoth
        /\ StoreBoth("input_private", <<v>>,
                     [e \in Ids |-> input_private(Self(e), v, fault, key)])

PairMul ==
    \E a \in Wires, b \in Wires, fault \in BOOLEAN :
      \E peer \in PeerValues(2, a, b, fault), key \in KeysOn(fault) :
        /\ CountedBoth
        /\ StoreBoth("mul", <<a.value, b.value>>,
                     [e \in Ids |-> mul(Self(e), a, b, peer, fault, key)])

PairAssertZero ==
    \E a \in Wires, at \in {"none", "fz", "cz"} :
        /\ CountedBoth
        /\ StoreBoth("assert_zero", <<a>>,
                     [e \in Ids |-> assert_zero(Self(e), a, at = "fz", at = "cz")])

PairFinalize ==
    \E at \in {"none", "ff", "fz", "cz", "fm", "qs"}, keep \in BOOLEAN :
        StoreBoth("finalize", <<>>,
                  [e \in Ids |-> finalize(Self(e), at = "ff", at = "fz", at = "cz",
                                          at = "fm", at = "qs", keep)])

\* A Prover and a Verifier created with the same no_batching setting.
InitPair ==
    /\ Fresh
    /\ Idle
    /\ role = [e \in Ids |-> IF e = 1 THEN "Prover" ELSE "Verifier"]
    /\ no_batching \in {f \in [Ids -> BOOLEAN] : f[1] = f[2]}
    /\ track = "off"

\* The gates of the circuit are bounded, its finalize and reset calls are not.
PairGate ==
    /\ \A e \in Ids : Calls(monitor[e]) < MaxPair
    /\ \/ BothInputPublic
       \/ PairInputPrivate
       \/ BothAdd
       \/ BothAddc
       \/ BothMulc
       \/ PairMul
       \/ PairAssertZero

NextPair ==
    \/ PairGate
    \/ PairFinalize
    \/ BothReset

SpecPair == InitPair /\ [][NextPair]_vars

\* ---- the challenge primitive

\* challenge: a freshly sampled field element c whose tag t both parties
\* derive; each side holds its own part of the value.
challenge_authenticated(S, c, t) ==
    IF ~S.is_ok THEN Ret(S, "err", NoWire)
    ELSE IF S.role = "Prover"
    THEN Ret(S, "ok", [value |-> c, mac |-> t, key |-> -1])
    ELSE Ret(S, "ok", [value |-> -1, mac |-> -1,
                       key |-> Xor(t, multiply_by_prime_subfield(delta, c))])

challenge(S, c, t) ==
    IF ~check_is_ok(S) THEN Ret(S, "err", NoWire)
    ELSE IF S.role = "Prover"
    THEN Ret(S, "ok", [value |-> c, mac |-> t, key |-> -1])
    ELSE Ret(S, "ok", [value |-> -1, mac |-> -1, key |-> t])

\* mac(): the tag a party holds of a value
mac(r, w) == IF r = "Prover" THEN w.mac ELSE w.key

\* Both sides call challenge, once.
BothChallenge ==
    \E c \in Clear, t \in Tags :
        LET R == [e \in Ids |-> challenge(Self(e), c, t)]
        IN  /\ \A e \in Ids : challenged[e] = NoWire /\ dropped[e] = "alive"
            /\ challenged' = [e \in Ids |-> R[e].out]
            /\ last' = Call(1, "challenge", <<>>, R[1])
            /\ last2' = Call(2, "challenge", <<>>, R[2])
            /\ failed' = [e \in Ids |-> failed[e] \/ R[e].res = "err"]
            /\ UNCHANGED <<role, no_batching, delta, is_ok, check_zero_list, monitor,
                           state_mult_check, valid_run, nz, dropped, track, hist>>
            /\ UNCHANGED field

NextChallenge == BothChallenge \/ PairFinalize \/ BothReset

SpecChallenge == InitPair /\ [][NextChallenge]_vars

\* ---- two evaluators attached to one commitment functionality

\* init_with_fcom twice with the same fcom: the same role and the same delta,
\* each evaluator with its own flag, list, monitor and accumulator.
InitShared ==
    /\ Fresh
    /\ Idle
    /\ role \in {f \in [Ids -> Roles] : f[1] = f[2]}
    /\ no_batching \in [Ids -> BOOLEAN]
    /\ track = "off"

\* One call on evaluator e, the gates of the two evaluators together bounded.
SharedOp(e) ==
    \/ /\ Calls(monitor[1]) + Calls(monitor[2]) < MaxShared
       /\ Op(e)
    \/ Finalize(e)
    \/ Reset(e)

\* The driver calls one evaluator or the other, one call at a time.
NextShared == SharedOp(1) \/ SharedOp(2)

SpecShared == InitShared /\ [][NextShared]_vars

\* ---- from_bytes_le on its own

\* The byte values the buffers are made of.
ByteValues == {0, 1, 255}

RECURSIVE Buffers(_)
Buffers(n) ==
    IF n = 0 THEN {<<>>}
    ELSE Buffers(n - 1) \cup {Append(b, v) : b \in Buffers(n - 1), v \in ByteValues}

\* from_bytes_le(bytes)
Decode ==
    /\ ~decoded.done
    /\ decoded' = from_bytes_le(bytes)
    /\ UNCHANGED <<bytes, gf_a, gf_b, gf_out>>
    /\ UNCHANGED evaluators

\* from_bytes_le of the buffer with one more zero byte at its end
DecodePadded ==
    /\ Len(bytes) < MaxLen
    /\ bytes' = Append(bytes, 0)
    /\ decoded' = from_bytes_le(bytes')
    /\ UNCHANGED <<gf_a, gf_b, gf_out>>
    /\ UNCHANGED evaluators

InitBytes ==
    /\ Fresh
    /\ role = [e \in Ids |-> "Verifier"]
    /\ no_batching = [e \in Ids |-> FALSE]
    /\ track = "off"
    /\ bytes \in Buffers(MaxLen)
    /\ gf_a = {}
    /\ gf_b = {}

NextBytes == Decode \/ DecodePadded

SpecBytes == InitBytes /\ [][NextBytes]_vars

\* ---- Gf128 multiplication on its own

\* The bit positions at the edges of the 64-bit halves.
EdgeBits == {0, 63, 64, 127}

\* The operands: every single bit, every combination of at most MaxTerms edge
\* bits, and the word of all ones.
Operands ==
    {{i} : i \in U128}
        \cup {x \in SUBSET EdgeBits : Cardinality(x) <= MaxTerms}
        \cup {U128}

\* self *= rhs
Multiply ==
    /\ gf_out.op = "none"
    /\ gf_out' = mul_assign(gf_a, gf_b)
    /\ UNCHANGED <<bytes, decoded, gf_a, gf_b>>
    /\ UNCHANGED evaluators

\* reduce(upper, lower) on two words of its own
Reduce ==
    /\ gf_out.op = "none"
    /\ gf_out' = [op |-> "reduce", upper |-> gf_a, lower |-> gf_b,
                  reduced |-> reduce(gf_a, gf_b)]
    /\ UNCHANGED <<bytes, decoded, gf_a, gf_b>>
    /\ UNCHANGED evaluators

InitGf ==
    /\ Fresh
    /\ role = [e \in Ids |-> "Verifier"]
    /\ no_batching = [e \in Ids |-> FALSE]
    /\ track = "off"
    /\ bytes = <<>>
    /\ gf_a \in Operands
    /\ gf_b \in Operands

NextGf == Multiply \/ Reduce

SpecGf == InitGf /\ [][NextGf]_vars

\* ------------------------------------------------------------------ claims

PublicOps ==
    {"input_public", "input_private", "add", "addc", "mulc", "mul",
     "assert_zero", "finalize"}

SubProtocols == {"input1", "check_zero", "quicksilver_finalize"}

\* The call that led to this state invoked sub-protocol or channel call name.
Invoked(l, name) == \E i \in 1 .. Len(l.events) : l.events[i].ev = name

\* C1: once the ok-flag of an evaluator is false, every call of a public
\* operation (input_public, input_private, add, addc, mulc, mul, assert_zero,
\* finalize) returns an error, until reset is called.
C1_PoisonedCallsFail ==
    [][(~is_ok[last'.e] /\ last'.op \in PublicOps) => last'.res = "err"]_vars

\* C2: while the ok-flag is false, no public operation other than reset makes
\* a channel flush or invokes input1, check_zero or quicksilver_finalize.
C2_PoisonedNoCommunication ==
    [][(~is_ok[last'.e] /\ last'.op # "reset") => last'.events = <<>>]_vars

\* C2 witness: an assert_zero in immediate mode, which flushes when the
\* evaluator is ready, was called on a poisoned evaluator.
C2_Witness ==
    /\ ~is_ok[1] /\ no_batching[1]
    /\ last.op = "assert_zero" /\ last.res = "err" /\ last.events = <<>>

\* C3: a failure of an interactive sub-protocol (input1, check_zero,
\* quicksilver_finalize) sets the ok-flag to false and is returned as an error
\* by the public operation that invoked it, which makes no further call.
C3_SubProtocolFailurePoisons ==
    \A i \in 1 .. Len(last.events) :
        (last.events[i].ev \in SubProtocols /\ ~last.events[i].ok)
            => (~is_ok[last.e] /\ last.res = "err" /\ i = Len(last.events))

\* C4: after assert_zero on a value whose clear value is non-zero the next
\* finalize returns an error, and after that finalize failed (in its check or
\* on the state check) every further call returns an error. The history nz
\* is "pending" from the assertion to that finalize, "failed" after it, and
\* reset ends both.
C4_NonZeroAssertionRejected ==
    [][/\ (nz[last'.e] = "pending" /\ last'.op = "finalize") => last'.res = "err"
       /\ (nz[last'.e] = "failed" /\ last'.op \in PublicOps) => last'.res = "err"]_vars

\* C5: in a run from a fresh evaluator with no fault, only zero values
\* asserted and every product wire carrying the product, every operation,
\* finalize included, returns success and the evaluator stays ready.
C5_ValidRunSucceeds ==
    (valid_run[last.e] /\ last.op # "init") => (last.res = "ok" /\ is_ok[last.e])

\* C5 witness: a valid run in which finalize checked a zero assertion and a
\* multiplication triple and returned success.
C5_Witness ==
    /\ valid_run[1] /\ is_ok[1]
    /\ last.op = "finalize" /\ last.res = "ok"
    /\ monitor[1].monitor_zk_check_zero > 0
    /\ monitor[1].monitor_zk_mult_check > 0

\* C6: only reset takes an evaluator from poisoned to ready; no other
\* operation, finalize included, changes the ok-flag from false to true.
C6_OnlyResetRecovers ==
    [][\A e \in Ids :
          (~is_ok[e] /\ is_ok'[e]) => (last'.op = "reset" /\ last'.e = e)]_vars

\* C6 witness: finalize was called on a poisoned evaluator, which stayed
\* poisoned.
C6_Witness ==
    /\ ~is_ok[1]
    /\ last.op = "finalize" /\ last.res = "err" /\ last.events = <<>>

\* C7: reset sets the ok-flag, empties the multiplication accumulator and
\* leaves the pending zero-check list and the counters as they are; and every
\* batch handed to check_zero starts with the whole list that was pending,
\* so what was enqueued before a reset is in the first batch after it.
C7_ResetFrame ==
    [][LET e == last'.e
       IN  /\ last'.op = "reset" =>
                /\ is_ok'[e]
                /\ state_mult_check'[e] = EmptyMultCheck
                /\ check_zero_list'[e] = check_zero_list[e]
                /\ monitor'[e] = monitor[e]
           /\ \A i \in 1 .. Len(last'.events) :
                last'.events[i].ev = "check_zero" =>
                    /\ Len(last'.events[i].batch) >= Len(check_zero_list[e])
                    /\ SubSeq(last'.events[i].batch, 1, Len(check_zero_list[e]))
                         = check_zero_list[e]]_vars

\* C7 witness: a reset of an evaluator that has evaluated a mul and still
\* holds a pending zero assertion.
C7_Witness ==
    /\ last.op = "reset" /\ is_ok[1]
    /\ check_zero_list[1] # <<>>
    /\ monitor[1].monitor_mul > 0
    /\ state_mult_check[1] = EmptyMultCheck

\* C8: in every reachable state the pending zero-check list holds at most
\* QUEUE_CAPACITY values.
C8_QueueBounded ==
    \A e \in Ids : Len(check_zero_list[e]) <= QUEUE_CAPACITY

\* The situations in which the queue is to be flushed, for the call that the
\* step makes on a ready evaluator: an assert_zero that fills the list, any
\* assert_zero in immediate mode, a finalize.
FlushTrigger ==
    LET e == last'.e
    IN  /\ is_ok[e]
        /\ \/ /\ last'.op = "assert_zero"
              /\ \/ Len(check_zero_list[e]) + 1 = QUEUE_CAPACITY
                 \/ no_batching[e]
           \/ last'.op = "finalize"

\* An assert_zero in batching mode whose push leaves the list shorter than
\* QUEUE_CAPACITY makes no channel or sub-protocol call.
QuietEnqueue ==
    LET e == last'.e
    IN  (/\ last'.op = "assert_zero" /\ ~no_batching[e]
         /\ Len(check_zero_list[e]) + 1 < QUEUE_CAPACITY) => last'.events = <<>>

\* C9 as stated: check_zero is invoked exactly when an assert_zero fills the
\* list, on every assert_zero in immediate mode and on every finalize of a
\* ready evaluator.
C9_FlushExactlyOnTrigger ==
    [][(Invoked(last', "check_zero") <=> FlushTrigger) /\ QuietEnqueue]_vars

\* C9 amended: check_zero is invoked only in those three situations, and in
\* each of them it is invoked unless a channel flush that precedes it fails.
C9_FlushOnTriggerUnlessFlushFails ==
    [][/\ Invoked(last', "check_zero") => FlushTrigger
       /\ FlushTrigger =>
            \/ Invoked(last', "check_zero")
            \/ \E i \in 1 .. Len(last'.events) :
                  last'.events[i].ev = "flush" /\ ~last'.events[i].ok
       /\ QuietEnqueue]_vars

\* C9 witness: in batching mode an assert_zero filled the list and the whole
\* list went to check_zero.
C9_Witness ==
    /\ ~no_batching[1] /\ last.op = "assert_zero"
    /\ \E i \in 1 .. Len(last.events) :
          last.events[i].ev = "check_zero" /\ last.events[i].n = QUEUE_CAPACITY

\* The position of do_check_zero's first call among the calls of the operation.
FlushAttemptAt == IF last.op = "finalize" THEN 2 ELSE 1

\* C10: after every flush attempt of the zero-check queue (do_check_zero
\* reached from assert_zero or finalize) the pending list is empty, and if
\* the attempt returned an error the ok-flag is false.
C10_FlushAttemptClears ==
    (last.op \in {"assert_zero", "finalize"} /\ Len(last.events) >= FlushAttemptAt) =>
        /\ check_zero_list[last.e] = <<>>
        /\ (\E i \in FlushAttemptAt .. Len(last.events) :
               last.events[i].ev \in {"flush", "check_zero"} /\ ~last.events[i].ok
               /\ i <= FlushAttemptAt + 1)
             => ~is_ok[last.e]

\* C11 as stated: every invocation of input1, check_zero and
\* quicksilver_finalize is immediately preceded by a channel flush made by the
\* evaluator in the same call.
C11_FlushBeforeEverySubProtocol ==
    \A i \in 1 .. Len(last.events) :
        last.events[i].ev \in SubProtocols
            => (i > 1 /\ last.events[i - 1].ev = "flush")

\* C11 amended: every invocation of check_zero and quicksilver_finalize comes
\* right after a successful channel flush of the same call, and input1 is
\* invoked with no flush before it (it is the first thing its call does).
C11_FlushBeforeChecks ==
    \A i \in 1 .. Len(last.events) :
        /\ last.events[i].ev \in {"check_zero", "quicksilver_finalize"}
               => (i > 1 /\ last.events[i - 1].ev = "flush" /\ last.events[i - 1].ok)
        /\ last.events[i].ev = "input1" => i = 1

C11_Witness ==
    /\ last.op = "finalize"
    /\ Invoked(last, "check_zero")
    /\ Invoked(last, "quicksilver_finalize")
    /\ last.res = "ok"

\* The names of the channel and sub-protocol calls made by call l, in order.
Steps(l) == [i \in 1 .. Len(l.events) |-> l.events[i].ev]

IsPrefix(s, t) == Len(s) <= Len(t) /\ \A i \in 1 .. Len(s) : s[i] = t[i]

\* A finalize on a ready evaluator makes the calls of order one after the
\* other and stops at the first that fails; check_zero is given the whole
\* pending list; the finalize succeeds exactly when every call of order was
\* made and succeeded; after a failed check_zero no quicksilver_finalize.
FinalizeRuns(order) ==
    (last'.op = "finalize" /\ is_ok[last'.e]) =>
        LET ev == last'.events
            n == Len(ev)
        IN  /\ n >= 1
            /\ IsPrefix(Steps(last'), order)
            /\ \A i \in 1 .. n - 1 : ev[i].ok
            /\ n < Len(order) => ~ev[n].ok
            /\ last'.res = "ok" <=> (n = Len(order) /\ ev[n].ok)
            /\ \A i \in 1 .. n :
                   ev[i].ev = "check_zero" =>
                       /\ ev[i].batch = check_zero_list[last'.e]
                       /\ ~ev[i].ok => ~Invoked(last', "quicksilver_finalize")

\* C12 as stated: finalize on a ready evaluator performs, in this order,
\* channel flush, check_zero on the whole pending list, channel flush,
\* quicksilver_finalize, stopping at the first step that fails, and succeeds
\* iff every step succeeded.
C12_FinalizeFourSteps ==
    [][FinalizeRuns(<<"flush", "check_zero", "flush", "quicksilver_finalize">>)]_vars

\* C12 amended: the order is channel flush, channel flush, check_zero on the
\* whole pending list, channel flush, quicksilver_finalize; finalize stops at
\* the first step that fails, succeeds iff every step succeeded, and does not
\* invoke quicksilver_finalize when check_zero fails.
C12_FinalizeFiveSteps ==
    [][FinalizeRuns(<<"flush", "flush", "check_zero", "flush",
                      "quicksilver_finalize">>)]_vars

C12_Witness ==
    /\ last.op = "finalize"
    /\ last.res = "err"
    /\ Len(last.events) = 3
    /\ last.events[3].ev = "check_zero"
    /\ last.events[3].batch # <<>>
    /\ ~last.events[3].ok

\* A finalize is called on the evaluator whose last call was a finalize that
\* returned success.
FinalizeAgain ==
    /\ last.op = "finalize"
    /\ last.res = "ok"
    /\ last'.op = "finalize"
    /\ last'.e = last.e

\* The second finalize returns success and leaves the evaluator ok with an
\* empty list and an empty accumulator.
StillFinalized ==
    /\ last'.res = "ok"
    /\ is_ok'[last'.e]
    /\ check_zero_list'[last'.e] = <<>>
    /\ state_mult_check'[last'.e] = EmptyMultCheck

ReturnedCount == last'.events[Len(last'.events)].n

\* A finalize of a batching evaluator that was never poisoned gets a count
\* from quicksilver_finalize.
CountReturned ==
    /\ last'.op = "finalize"
    /\ ~no_batching[last'.e]
    /\ hist'[last'.e].never_poisoned
    /\ Invoked(last', "quicksilver_finalize")
    /\ last'.events[Len(last'.events)].ok

C15_SameOutcome == failed[1] = failed[2]

\* C15 amended: for every gate sequence that ends with finalize, on a transport
\* that does not fail, the run with no_batching true has reported a failure
\* iff the run with no_batching false has.
C15_SameOutcomeAfterFinalize ==
    (last.op = "finalize" /\ last2.op = "finalize") => failed[1] = failed[2]

\* The two runs fail at different calls: the immediate one at the assert_zero
\* of a non-zero value, the batched one at the finalize.
C15_Witness ==
    /\ last.op = "finalize"
    /\ last2.op = "finalize"
    /\ failed[1]
    /\ failed[2]
    /\ last.events = <<>>
    /\ Invoked(last2, "check_zero")
    /\ monitor[1].monitor_check_zero = 1
    /\ monitor[2].monitor_check_zero = 1

LocalGates == {"add", "addc", "mulc", "input_public"}

\* C16: add, addc, mulc and input_public make no channel call and invoke no
\* sub-protocol, and leave the ok-flag, the zero-check list and the
\* multiplication accumulator unchanged; on a ready evaluator add, addc and
\* mulc return success.
C16_LocalGates ==
    [][last'.op \in LocalGates =>
          /\ last'.events = <<>>
          /\ is_ok' = is_ok
          /\ check_zero_list' = check_zero_list
          /\ state_mult_check' = state_mult_check
          /\ (is_ok[last'.e] /\ last'.op # "input_public") => last'.res = "ok"]_vars

\* A mulc on a ready evaluator with a pending assertion and a pending triple.
C16_Witness ==
    /\ last.op = "mulc"
    /\ last.res = "ok"
    /\ is_ok[last.e]
    /\ check_zero_list[last.e] # <<>>
    /\ state_mult_check[last.e].cnt > 0

C18_MulAppendsOneTriple ==
    [][LET e == last'.e
           a == [value |-> last'.args[1]]
           b == [value |-> last'.args[2]]
       IN  /\ (last'.op = "mul" /\ last'.res = "ok") =>
                  /\ Len(last'.events) = 1
                  /\ last'.events[1].ev = "input1"
                  /\ last'.events[1].ok
                  /\ state_mult_check'[e] =
                         quicksilver_push(state_mult_check[e], a, b, last'.out)
                  /\ state_mult_check'[e].cnt = state_mult_check[e].cnt + 1
                  /\ role[e] = "Prover"
                         => last'.out.value = (a.value * b.value) % MODULUS
           /\ (last'.op = "mul" /\ last'.res = "err") =>
                  state_mult_check'[e] = state_mult_check[e]
           /\ last'.op \in PublicOps \ {"mul", "finalize"} =>
                  state_mult_check'[e] = state_mult_check[e]
           /\ last'.op \in {"finalize", "reset"} =>
                  state_mult_check'[e].cnt <= state_mult_check[e].cnt]_vars

\* A second successful mul of the Prover, of 1 by 1.
C18_Witness ==
    /\ last.op = "mul"
    /\ last.res = "ok"
    /\ role[last.e] = "Prover"
    /\ last.args = <<1, 1>>
    /\ last.out.value = 1
    /\ state_mult_check[last.e].cnt = 2

\* C19: on a ready evaluator assert_zero(a) appends a at the tail of the
\* zero-check list, keeping the earlier entries and their order, so that every
\* check_zero batch is the asserted values in call order; the enqueue itself
\* succeeds, and assert_zero returns an error only when a flush it triggers
\* fails.
C19_AssertZeroAppends ==
    [][LET e == last'.e
           ev == last'.events
           pushed == Append(check_zero_list[e], last'.args[1])
       IN  /\ (last'.op = "assert_zero" /\ is_ok[e]) =>
                  /\ \A i \in 1 .. Len(ev) :
                         ev[i].ev = "check_zero" => ev[i].batch = pushed
                  /\ check_zero_list'[e] =
                         IF Invoked(last', "check_zero") THEN <<>> ELSE pushed
                  /\ ev = <<>> => last'.res = "ok"
                  /\ last'.res = "err" => (ev # <<>> /\ ~ev[Len(ev)].ok)
           /\ last'.op = "finalize" =>
                  \A i \in 1 .. Len(ev) :
                      ev[i].ev = "check_zero" => ev[i].batch = check_zero_list[e]]_vars

\* An assert_zero whose value goes behind a different one into the batch
\* that it makes check_zero verify.
C19_Witness ==
    /\ last.op = "assert_zero"
    /\ Len(last.events) = 2
    /\ Len(last.events[2].batch) = 2
    /\ last.events[2].batch[2] = last.args[1]
    /\ last.events[2].batch[1] # last.args[1]

\* C20 as stated: dropping an evaluator logs the warning exactly when its
\* zero-check list is not empty, whatever the state of the evaluator; drop
\* returns no error and makes no channel or sub-protocol call.
C20_DropWarnsOnPendingList ==
    last.op = "drop" =>
        /\ dropped[last.e] = "warned" <=> check_zero_list[last.e] # <<>>
        /\ last.res = "ok"
        /\ last.events = <<>>

\* The value input_public returns for v on evaluator S.
Public(S, v) == input_public(S, v).out

\* C21: on a ready evaluator of either role, for all clear values x, y, k,
\* add(input_public(x), input_public(y)) = input_public(x + y),
\* addc(input_public(x), k) = input_public(x + k) and
\* mulc(input_public(x), k) = input_public(x * k); and every public value
\* satisfies prover tag = clear * delta + verifier tag.
C21_PublicValuesClosed ==
    is_ok[1] =>
        LET S == Self(1)
        IN  \A x \in Clear, y \in Clear :
                /\ add(S, Public(S, x), Public(S, y)).res = "ok"
                /\ add(S, Public(S, x), Public(S, y)).out
                       = Public(S, (x + y) % MODULUS)
                /\ addc(S, Public(S, x), y).out = Public(S, (x + y) % MODULUS)
                /\ mulc(S, Public(S, x), y).out = Public(S, (x * y) % MODULUS)
                /\ Public(S, x).mac
                       = Xor(multiply_by_prime_subfield(delta, x), Public(S, x).key)

\* An addc of a Verifier that returned the public value of 1.
C21_Witness ==
    /\ is_ok[1]
    /\ role[1] = "Verifier"
    /\ last.op = "addc"
    /\ last.res = "ok"
    /\ last.out = Public(Self(1), 1)

\* n zero bytes
Zeros(n) == [i \in 1 .. n |-> 0]

\* The buffer without its trailing zero bytes: its shortest prefix that the
\* buffer extends with zero bytes only.
Unpadded(b) ==
    LET k == CHOOSE j \in 0 .. Len(b) :
                 /\ \A i \in j + 1 .. Len(b) : b[i] = 0
                 /\ j = 0 \/ b[j] # 0
    IN  SubSeq(b, 1, k)

\* C22: from_bytes_le is insensitive to trailing zero padding: what it
\* returned for the buffer (a field element or an error) is what it returns
\* for the buffer without its trailing zero bytes, and for that buffer
\* followed by any number of zero bytes.
C22_PaddingInsensitive ==
    decoded.done =>
        /\ decoded = from_bytes_le(Unpadded(bytes))
        /\ \A n \in 0 .. MaxLen :
               from_bytes_le(Unpadded(bytes) \o Zeros(n)) = decoded

\* A buffer of the canonical length followed by two zero bytes was decoded.
C22_Witness ==
    /\ decoded.done
    /\ decoded.ok
    /\ Len(bytes) = ByteReprLen + 2
    /\ Len(Unpadded(bytes)) = ByteReprLen

\* C23: from_bytes_le fails exactly when the buffer without its trailing zero
\* bytes is longer than ByteReprLen, and otherwise returns the element whose
\* little-endian encoding is that buffer zero-extended to ByteReprLen bytes.
C23_FailsExactlyWhenTooLong ==
    decoded.done =>
        LET s == Unpadded(bytes)
        IN  IF Len(s) > ByteReprLen
            THEN ~decoded.ok
            ELSE /\ decoded.ok
                 /\ to_bytes(decoded.val) = s \o Zeros(ByteReprLen - Len(s))

\* A buffer of exactly the canonical length, with a zero byte after it, was
\* decoded to the element 255 + 256.
C23_Witness ==
    /\ decoded.done
    /\ decoded.ok
    /\ bytes = <<255, 1, 0>>
    /\ decoded.val = 511

\* C27: conservation of zero-assertions: in every reachable state of an
\* evaluator, monitor_check_zero equals monitor_zk_check_zero plus the length
\* of the pending zero-check list, whatever failures and resets occurred.
C27_ZeroAssertionsConserved ==
    \A e \in Ids :
        monitor[e].monitor_check_zero =
            monitor[e].monitor_zk_check_zero + Len(check_zero_list[e])

\* A flush failure left a full list pending, and the finalize that followed
\* handed both values to a check_zero that failed.
C27_Witness ==
    /\ last.op = "finalize"
    /\ ~is_ok[1]
    /\ \E i \in 1 .. Len(last.events) :
          /\ last.events[i].ev = "check_zero"
          /\ ~last.events[i].ok
          /\ last.events[i].n = QUEUE_CAPACITY
    /\ monitor[1].monitor_check_zero = QUEUE_CAPACITY
    /\ monitor[1].monitor_zk_check_zero = QUEUE_CAPACITY

\* The counter of each counted operation.
CounterOf(m) ==
    [add |-> m.monitor_add, addc |-> m.monitor_addc, mulc |-> m.monitor_mulc,
     mul |-> m.monitor_mul, input_private |-> m.monitor_witness,
     assert_zero |-> m.monitor_check_zero]

\* C25: an operation's counter is incremented when the operation succeeds and
\* only then: every call adds one to the counter of its operation if it
\* returned success and leaves every other counter as it was, so that each
\* counter is the number of calls of its operation that returned success.
C25_CountsSuccessfulCalls ==
    [][\A op \in DOMAIN CounterOf(MonitorDefault) :
          CounterOf(monitor'[last'.e])[op] =
              CounterOf(monitor[last'.e])[op]
                  + (IF last'.op = op /\ last'.res = "ok" THEN 1 ELSE 0)]_vars

\* The counters count the calls that found the evaluator ready: a call that
\* returned an error was counted exactly when the evaluator was ready.
C25_CountsCallsOnReady ==
    [][\A op \in DOMAIN CounterOf(MonitorDefault) :
          CounterOf(monitor'[last'.e])[op] =
              CounterOf(monitor[last'.e])[op]
                  + (IF last'.op = op /\ is_ok[last'.e] THEN 1 ELSE 0)]_vars

\* The polynomial over GF(2) with coefficient set p, times the one with q.
PolyMul(p, q) ==
    {k \in 0 .. 254 : Cardinality({i \in p : k - i \in q}) % 2 = 1}

\* x^128 + x^7 + x^2 + x + 1
ReductionPoly == {128, 7, 2, 1, 0}

Degree(p) == CHOOSE m \in p : \A i \in p : i <= m

\* The remainder of p divided by ReductionPoly, by long division.
RECURSIVE PolyMod(_)
PolyMod(p) ==
    IF p = {} \/ Degree(p) < 128 THEN p
    ELSE PolyMod(xor(p, {t + Degree(p) - 128 : t \in ReductionPoly}))

\* The polynomial upper * x^128 + lower
Wide(upper, lower) == {i + 128 : i \in upper} \cup lower

\* C26: Gf128 multiplication is polynomial multiplication over GF(2) reduced
\* modulo x^128 + x^7 + x^2 + x + 1: mul_wide(a, b) returned the upper and
\* lower halves of the unreduced carry-less product of a and b, and
\* reduce(upper, lower) returned the remainder of upper * x^128 + lower
\* divided by that polynomial.
C26_MultiplicationIsPolynomial ==
    /\ gf_out.op = "mul_assign" =>
          /\ Wide(gf_out.upper, gf_out.lower) = PolyMul(gf_a, gf_b)
          /\ gf_out.reduced = PolyMod(PolyMul(gf_a, gf_b))
    /\ gf_out.op = "reduce" =>
          gf_out.reduced = PolyMod(Wide(gf_a, gf_b))

\* x^127 + 1 was multiplied by x^127 + x^64: the product has degree 254 and
\* a term that cancels nowhere below x^128.
C26_Witness ==
    /\ gf_out.op = "mul_assign"
    /\ gf_a = {0, 127}
    /\ gf_b = {64, 127}
    /\ 126 \in gf_out.upper
    /\ gf_out.reduced # gf_out.lower

Lockstep ==
    /\ is_ok[1] = is_ok[2]
    /\ Len(check_zero_list[1]) = Len(check_zero_list[2])
    /\ state_mult_check[1].cnt = state_mult_check[2].cnt

\* The channel and sub-protocol calls that both sides made in their last call
\* had the same outcome on both sides.
SameOutcomes(l1, l2) ==
    \A i \in 1 .. Len(l1.events) :
        i <= Len(l2.events) => l1.events[i].ok = l2.events[i].ok

\* Both sides made the same channel and sub-protocol calls, check_zero with
\* the same batch size.
SameInvocations(l1, l2) ==
    /\ Len(l1.events) = Len(l2.events)
    /\ \A i \in 1 .. Len(l1.events) :
          /\ l1.events[i].ev = l2.events[i].ev
          /\ Len(l1.events[i].batch) = Len(l2.events[i].batch)

FinalizedFaultFree(l) ==
    /\ l.op = "finalize"
    /\ Len(l.events) > 0
    /\ \A i \in 1 .. Len(l.events) : ~l.events[i].fault

====
